---- MODULE Spec2Model ----
(***************************************************************************)
(* Model of chaos/src/data.rs: the POST /data handler process_data, the    *)
(* serde decoding of DataRequest { data: Vec<Data> } with the untagged     *)
(* enum Data, and the fold of DataRequest::process.                        *)
(*                                                                         *)
(* A JSON value of the "data" array is a record [t |-> kind, ...].  A text *)
(* is the sequence of its Unicode code points.  usize is scaled down to    *)
(* UsizeBits bits; every request keeps its total text size below that      *)
(* range, as memory does for the real width, while integer elements span   *)
(* the whole range.                                                        *)
(***************************************************************************)
EXTENDS Integers, Sequences, FiniteSets, TLC

\* ---------------------------------------------------------------- bounds
MaxLen == 2
MaxLenConc == 2
MaxRuns == 2
UsizeBits == 4

UsizeMax == 2^UsizeBits - 1

\* ---------------------------------------------------------- JSON values
JString(s) == [t |-> "string", s |-> s]
JInt(n) == [t |-> "int", n |-> n]
JFloat == [t |-> "float"]
JBool == [t |-> "bool"]
JNull == [t |-> "null"]
JArray == [t |-> "array"]
JObject == [t |-> "object"]

\* "", "a", "e-acute" (U+00E9), "5"
Texts == {<<>>, <<97>>, <<233>>, <<53>>}

Numbers == {-1, 0, 1, UsizeMax, UsizeMax + 1}

RawValues ==
    {JString(s) : s \in Texts} \cup {JInt(n) : n \in Numbers}
        \cup {JFloat, JBool, JNull, JArray, JObject}

SeqsUpTo(S, n) == UNION {[1..k -> S] : k \in 0..n}

\* the request of tests::test_process_data: ["Hello", 1, 5, "World", "!"]
TestRequest ==
    << JString(<<72, 101, 108, 108, 111>>), JInt(1), JInt(5),
       JString(<<87, 111, 114, 108, 100>>), JString(<<33>>) >>

Requests == SeqsUpTo(RawValues, MaxLen) \cup {TestRequest}

ConcValues == {JString(<<233>>), JInt(1), JInt(UsizeMax), JNull}

ConcRequests == SeqsUpTo(ConcValues, MaxLenConc)

ConcInvocations == {1, 2}

\* ------------------------------------------------------------ enum Data
DataString(s) == [tag |-> "String", s |-> s]
DataInt(i) == [tag |-> "Int", i |-> i]

VariantsIntFirst == <<"Int", "String">>

\* the variants of the untagged enum, in declaration order
Variants == <<"String", "Int">>

\* the value serde buffers before it tries the variants of an untagged enum
ToContent(v) ==
    CASE v.t = "string" -> [c |-> "Str", s |-> v.s]
      [] v.t = "int" ->
            IF v.n < 0 THEN [c |-> "I64", n |-> v.n]
            ELSE IF v.n <= UsizeMax THEN [c |-> "U64", n |-> v.n]
            ELSE [c |-> "F64"]
      [] v.t = "float" -> [c |-> "F64"]
      [] v.t = "bool" -> [c |-> "Bool"]
      [] v.t = "null" -> [c |-> "Unit"]
      [] v.t = "array" -> [c |-> "Seq"]
      [] OTHER -> [c |-> "Map"]

AcceptsSigned(variant, content) ==
    IF variant = "String" THEN content.c = "Str"
    ELSE content.c \in {"U64", "I64"}

\* String(String) takes a string; Int(usize) takes an integer in usize range
Accepts(variant, content) ==
    IF variant = "String" THEN content.c = "Str"
    ELSE content.c = "U64" \/ (content.c = "I64" /\ content.n >= 0)

Construct(variant, content) ==
    IF variant = "String" THEN DataString(content.s) ELSE DataInt(content.n)

RECURSIVE TryFrom(_, _, _)
TryFrom(k, content, tried) ==
    IF k > Len(Variants)
    THEN [ok |-> FALSE, tried |-> tried, matched |-> "none"]
    ELSE IF Accepts(Variants[k], content)
         THEN [ok |-> TRUE, tried |-> Append(tried, Variants[k]),
               matched |-> Variants[k],
               data |-> Construct(Variants[k], content)]
         ELSE TryFrom(k + 1, content, Append(tried, Variants[k]))

\* <Data as Deserialize>::deserialize: the first variant that accepts wins
DeserializeData(v) == TryFrom(1, ToContent(v), <<>>)

Trial(r) == [tried |-> r.tried, matched |-> r.matched]

UntaggedError(i) ==
    [msg |-> "data did not match any variant of untagged enum Data",
     index |-> i]

RECURSIVE DeserializeSeq(_, _, _, _)
DeserializeSeq(raw, i, ds, ts) ==
    IF i > Len(raw)
    THEN [ok |-> TRUE, data |-> ds, trials |-> ts]
    ELSE LET r == DeserializeData(raw[i])
         IN  IF r.ok
             THEN DeserializeSeq(raw, i + 1, Append(ds, r.data),
                                 Append(ts, Trial(r)))
             ELSE [ok |-> FALSE, data |-> <<>>,
                   trials |-> Append(ts, Trial(r)),
                   err |-> UntaggedError(i - 1)]

RECURSIVE SkipSeq(_, _, _, _)
SkipSeq(raw, i, ds, ts) ==
    IF i > Len(raw)
    THEN [ok |-> TRUE, data |-> ds, trials |-> ts]
    ELSE LET r == DeserializeData(raw[i])
         IN  IF r.ok
             THEN SkipSeq(raw, i + 1, Append(ds, r.data), Append(ts, Trial(r)))
             ELSE SkipSeq(raw, i + 1, ds, Append(ts, Trial(r)))

DeserializeVecLenient(raw) == SkipSeq(raw, 1, <<>>, <<>>)

\* Vec<Data>: element by element, the first error ends the whole decode
DeserializeVec(raw) == DeserializeSeq(raw, 1, <<>>, <<>>)

\* ------------------------------------------------------------- process
\* char::len_utf8
Utf8Len(cp) ==
    IF cp < 128 THEN 1 ELSE IF cp < 2048 THEN 2 ELSE IF cp < 65536 THEN 3 ELSE 4

RECURSIVE StrLen(_)
\* String::len: the length in bytes of the UTF-8 encoding
StrLen(s) == IF s = <<>> THEN 0 ELSE Utf8Len(Head(s)) + StrLen(Tail(s))

FoldStepOverwrite(a, d) ==
    IF d.tag = "String" THEN <<StrLen(d.s), a[2]>> ELSE <<a[1], d.i>>

\* the closure of the fold, before the result is fitted to usize
FoldStep(a, d) ==
    IF d.tag = "String" THEN <<a[1] + StrLen(d.s), a[2]>>
    ELSE <<a[1], a[2] + d.i>>

Overflows(a) == a[1] > UsizeMax \/ a[2] > UsizeMax

Wrap(a) == <<a[1] % (UsizeMax + 1), a[2] % (UsizeMax + 1)>>

SerializeSwapped(r) == [string_len |-> r.int_sum, int_sum |-> r.string_len]

\* #[derive(Serialize)] on DataResponse: the field names are the JSON keys
Serialize(r) == [string_len |-> r.string_len, int_sum |-> r.int_sum]

NoOutcome == [status |-> "none"]
NoError == [msg |-> "none"]

VARIABLES
    overflow_checks,  \* build profile: arithmetic overflow panics (debug) or wraps
    raw,              \* per invocation: the "data" array of the request body
    pc,               \* per invocation: extract, handler, fold, done, rejected, panicked
    data,             \* per invocation: DataRequest.data
    trials,           \* per invocation: the variants tried for each element
    err,              \* per invocation: the deserialization error
    idx,              \* per invocation: elements the fold has consumed
    acc,              \* per invocation: (string_len_acc, int_sum_acc)
    out,              \* per invocation: what the client gets
    runs,             \* per invocation: submissions of the request so far
    first             \* per invocation: outcome and data of the first submission

vars == <<overflow_checks, raw, pc, data, trials, err, idx, acc, out, runs, first>>

Invocations == DOMAIN raw

Terminal(p) == pc[p] \in {"done", "rejected", "panicked"}

InitWith(reqs) ==
    /\ overflow_checks \in BOOLEAN
    /\ raw \in reqs
    /\ pc = [p \in DOMAIN raw |-> "extract"]
    /\ data = [p \in DOMAIN raw |-> <<>>]
    /\ trials = [p \in DOMAIN raw |-> <<>>]
    /\ err = [p \in DOMAIN raw |-> NoError]
    /\ idx = [p \in DOMAIN raw |-> 0]
    /\ acc = [p \in DOMAIN raw |-> <<0, 0>>]
    /\ out = [p \in DOMAIN raw |-> NoOutcome]
    /\ runs = [p \in DOMAIN raw |-> 1]
    /\ first = [p \in DOMAIN raw |-> [out |-> NoOutcome, data |-> <<>>]]

Init == InitWith([{1} -> Requests])

InitConc == InitWith([ConcInvocations -> ConcRequests])

\* the Json<DataRequest> extractor: decode the body or reject the request
Extract(p) ==
    /\ pc[p] = "extract"
    /\ LET r == DeserializeVec(raw[p])
       IN  /\ trials' = [trials EXCEPT ![p] = r.trials]
           /\ data' = [data EXCEPT ![p] = r.data]
           /\ IF r.ok
              THEN /\ pc' = [pc EXCEPT ![p] = "handler"]
                   /\ UNCHANGED <<err, out>>
              ELSE /\ pc' = [pc EXCEPT ![p] = "rejected"]
                   /\ err' = [err EXCEPT ![p] = r.err]
                   /\ out' = [out EXCEPT ![p] =
                                [status |-> "UnprocessableEntity", error |-> r.err]]
    /\ UNCHANGED <<overflow_checks, raw, idx, acc, runs, first>>

InitAccStale(p) == acc[p]

\* fold((0, 0), ...)
InitAcc(p) == <<0, 0>>

\* process_data calls request.process(), which starts the fold
CallProcess(p) ==
    /\ pc[p] = "handler"
    /\ pc' = [pc EXCEPT ![p] = "fold"]
    /\ acc' = [acc EXCEPT ![p] = InitAcc(p)]
    /\ idx' = [idx EXCEPT ![p] = 0]
    /\ UNCHANGED <<overflow_checks, raw, data, trials, err, out, runs, first>>

AccShared(p) == acc[CHOOSE q \in Invocations : \A r \in Invocations : q <= r]

\* the accumulator the closure receives: a value local to the call
Acc(p) == acc[p]

\* one element of the fold
Fold(p) ==
    /\ pc[p] = "fold"
    /\ idx[p] < Len(data[p])
    /\ LET a == FoldStep(Acc(p), data[p][idx[p] + 1])
       IN  IF Overflows(a) /\ overflow_checks
           THEN /\ pc' = [pc EXCEPT ![p] = "panicked"]
                /\ out' = [out EXCEPT ![p] = [status |-> "panicked"]]
                /\ UNCHANGED <<acc, idx>>
           ELSE /\ acc' = [acc EXCEPT ![p] = Wrap(a)]
                /\ idx' = [idx EXCEPT ![p] = idx[p] + 1]
                /\ UNCHANGED <<pc, out>>
    /\ UNCHANGED <<overflow_checks, raw, data, trials, err, runs, first>>

\* process returns the DataResponse; the handler answers (StatusCode::OK, Json(response))
Respond(p) ==
    /\ pc[p] = "fold"
    /\ idx[p] = Len(data[p])
    /\ LET response == [string_len |-> acc[p][1], int_sum |-> acc[p][2]]
       IN  out' = [out EXCEPT ![p] = [status |-> "OK", body |-> Serialize(response)]]
    /\ pc' = [pc EXCEPT ![p] = "done"]
    /\ UNCHANGED <<overflow_checks, raw, data, trials, err, idx, acc, runs, first>>

\* the client sends the same request again: a rejected body is decoded
\* again, a decoded request is processed again
Resubmit(p) ==
    /\ Terminal(p)
    /\ runs[p] < MaxRuns
    /\ runs' = [runs EXCEPT ![p] = runs[p] + 1]
    /\ first' = [first EXCEPT ![p] =
                    IF runs[p] = 1 THEN [out |-> out[p], data |-> data[p]]
                    ELSE first[p]]
    /\ pc' = [pc EXCEPT ![p] = IF pc[p] = "rejected" THEN "extract" ELSE "handler"]
    /\ out' = [out EXCEPT ![p] = NoOutcome]
    /\ UNCHANGED <<overflow_checks, raw, data, trials, err, idx, acc>>

Next ==
    \/ \E p \in Invocations : Extract(p)
    \/ \E p \in Invocations : CallProcess(p)
    \/ \E p \in Invocations : Fold(p)
    \/ \E p \in Invocations : Respond(p)
    \/ \E p \in Invocations : Resubmit(p)

NextConc ==
    \/ \E p \in Invocations : Extract(p)
    \/ \E p \in Invocations : CallProcess(p)
    \/ \E p \in Invocations : Fold(p)
    \/ \E p \in Invocations : Respond(p)

\* one invocation, resubmitted up to MaxRuns times
Spec == Init /\ [][Next]_vars

\* the invocations of ConcInvocations, interleaved step by step
SpecConc == InitConc /\ [][NextConc]_vars

\* ------------------------------------------------- reference definitions
\* a value the data model admits: a text, or a non-negative integer of usize
Classifiable(v) == v.t = "string" \/ (v.t = "int" /\ v.n >= 0 /\ v.n <= UsizeMax)

Decodable(r) == \A i \in 1..Len(r) : Classifiable(r[i])

RECURSIVE CharTotal(_)
\* the number of characters of all texts of a request
CharTotal(r) ==
    IF r = <<>> THEN 0
    ELSE (IF Head(r).t = "string" THEN Len(Head(r).s) ELSE 0) + CharTotal(Tail(r))

RECURSIVE ByteTotal(_)
\* the number of UTF-8 bytes of all texts of a request
ByteTotal(r) ==
    IF r = <<>> THEN 0
    ELSE (IF Head(r).t = "string" THEN StrLen(Head(r).s) ELSE 0) + ByteTotal(Tail(r))

RECURSIVE CountTotal(_)
\* the sum of all integers of a request, as a mathematical integer
CountTotal(r) ==
    IF r = <<>> THEN 0
    ELSE (IF Head(r).t = "int" THEN Head(r).n ELSE 0) + CountTotal(Tail(r))

WouldOverflow(r) == ByteTotal(r) > UsizeMax \/ CountTotal(r) > UsizeMax

Occurrences(s, x) == Cardinality({i \in 1..Len(s) : s[i] = x})

IsPermutation(s, t) ==
    /\ Len(s) = Len(t)
    /\ \A i \in 1..Len(s) : Occurrences(s, s[i]) = Occurrences(t, s[i])

\* ---------------------------------------------------------------- claims

\* C1: for every decodable request, the empty one included, the invocation
\* ends with a Response whose string_len is the sum of the lengths (in
\* characters) of all texts and whose int_sum is the sum of all integers.
C1_SumsOfAllElements ==
    \A p \in Invocations :
        (Decodable(raw[p]) /\ Terminal(p)) =>
            /\ out[p].status = "OK"
            /\ out[p].body.string_len = CharTotal(raw[p])
            /\ out[p].body.int_sum = CountTotal(raw[p])

\* C2: a request holding at least one unclassifiable element, at any
\* position, is rejected as a whole: no DataRequest is built, the fold never
\* runs over the valid elements and no Response body is produced.
C2_AllOrNothing ==
    \A p \in Invocations :
        (~Decodable(raw[p]) /\ pc[p] # "extract") =>
            /\ pc[p] = "rejected"
            /\ out[p].status = "UnprocessableEntity"
            /\ "body" \notin DOMAIN out[p]
            /\ data[p] = <<>>
            /\ idx[p] = 0
            /\ acc[p] = <<0, 0>>

C2_Witness ==
    \E p \in Invocations :
        /\ pc[p] = "rejected"
        /\ Len(raw[p]) = 2
        /\ Classifiable(raw[p][1])
        /\ raw[p][1] \in {JInt(1), JString(<<97>>)}
        /\ ~Classifiable(raw[p][2])

NotAnElement(v) ==
    \/ v.t \in {"float", "bool", "null", "array", "object"}
    \/ (v.t = "int" /\ v.n < 0)

C4_OverflowIsReported ==
    \A p \in Invocations :
        (Decodable(raw[p]) /\ WouldOverflow(raw[p]) /\ Terminal(p)) =>
            out[p].status = "AggregateOverflow"

\* C5 (as claimed): for each element Count is the first variant tried, and
\* every non-negative integer is classified as Count.
C5_CountTriedFirst ==
    \A p \in Invocations :
        \A i \in 1..Len(trials[p]) :
            /\ trials[p][i].tried[1] = "Int"
            /\ (raw[p][i].t = "int" /\ raw[p][i].n >= 0) =>
                    trials[p][i].matched = "Int"

\* C5 (amended): for each element String (Text) is tried first and Int
\* (Count) second; a JSON string matches String alone, whatever its
\* characters, a JSON integer of 0..usize::MAX is rejected by String and
\* matches Int, and no value matches both variants.
C5_StringTriedFirst ==
    \A p \in Invocations :
        \A i \in 1..Len(trials[p]) :
            LET v == raw[p][i]
                tr == trials[p][i]
            IN  /\ tr.tried[1] = "String"
                /\ v.t = "string" => (tr.tried = <<"String">> /\ tr.matched = "String")
                /\ (v.t = "int" /\ v.n >= 0 /\ v.n <= UsizeMax) =>
                        (tr.tried = <<"String", "Int">> /\ tr.matched = "Int")
                /\ ~(Accepts("String", ToContent(v)) /\ Accepts("Int", ToContent(v)))
                /\ (data[p] # <<>> /\ v.t = "string") => data[p][i] = DataString(v.s)
                /\ (data[p] # <<>> /\ v.t = "int") => data[p][i] = DataInt(v.n)

C5_Witness ==
    \E p \in Invocations :
        /\ pc[p] = "handler"
        /\ raw[p] = <<JInt(1), JString(<<53>>)>>
        /\ data[p] = <<DataInt(1), DataString(<<53>>)>>

\* C6: every text adds its number of characters to string_len, so without
\* overflow the returned string_len is the number of characters of all texts.
C6_CharacterLength ==
    \A p \in Invocations :
        (pc[p] = "done" /\ ~WouldOverflow(raw[p])) =>
            out[p].body.string_len = CharTotal(raw[p])

\* C7 (as claimed): the success body has exactly the fields textLength and
\* countSum.
C7_FieldNamesAsClaimed ==
    \A p \in Invocations :
        pc[p] = "done" => DOMAIN out[p].body = {"textLength", "countSum"}

\* C7 (amended): the success response is 200 OK with a body of exactly the
\* two fields string_len and int_sum, holding the fold's text-length
\* accumulator and count accumulator respectively.
C7_FieldNames ==
    \A p \in Invocations :
        pc[p] = "done" =>
            /\ out[p].status = "OK"
            /\ DOMAIN out[p].body = {"string_len", "int_sum"}
            /\ out[p].body.string_len = acc[p][1]
            /\ out[p].body.int_sum = acc[p][2]

C7_Witness ==
    \E p \in Invocations :
        /\ pc[p] = "done"
        /\ raw[p] = TestRequest
        /\ out[p].body.string_len = 11
        /\ out[p].body.int_sum = 6

\* C8: two invocations whose decoded sequences are permutations of each
\* other end with the same outcome.
C8_OrderIndependent ==
    \A p, q \in Invocations :
        ( /\ pc[p] \in {"done", "panicked"}
          /\ pc[q] \in {"done", "panicked"}
          /\ IsPermutation(data[p], data[q]) ) =>
            out[p] = out[q]

C8_Witness ==
    \E p, q \in Invocations :
        /\ pc[p] = "done"
        /\ pc[q] = "done"
        /\ data[p] # data[q]
        /\ IsPermutation(data[p], data[q])
        /\ \E i, j \in 1..Len(data[p]) :
                data[p][i].tag = "String" /\ data[p][j].tag = "Int"
        /\ out[p].body.string_len > 0
        /\ out[p].body.int_sum > 0

RECURSIVE FoldFrom(_, _, _)
\* the fold of one invocation run on its own, from element i on
FoldFrom(d, i, a) ==
    IF i > Len(d) THEN [status |-> "OK", body |-> [string_len |-> a[1], int_sum |-> a[2]]]
    ELSE LET b == FoldStep(a, d[i])
         IN  IF Overflows(b) /\ overflow_checks THEN [status |-> "panicked"]
             ELSE FoldFrom(d, i + 1, Wrap(b))

\* the outcome of a request handled with no other invocation in flight
RunAlone(r) ==
    LET d == DeserializeVec(r)
    IN  IF d.ok THEN FoldFrom(d.data, 1, <<0, 0>>)
        ELSE [status |-> "UnprocessableEntity", error |-> d.err]

\* C9: under every interleaving of concurrent invocations, each one ends
\* with the outcome its request has when handled alone.
C9_Isolated ==
    \A p \in Invocations : Terminal(p) => out[p] = RunAlone(raw[p])

C9_Witness ==
    \E p, q \in Invocations :
        /\ pc[p] = "done"
        /\ out[p].body.int_sum > 0
        /\ out[p].body.string_len > 0
        /\ pc[q] \in {"rejected", "panicked"}
        /\ pc[q] = "panicked" => idx[q] > 0

\* C10: a request submitted again ends exactly as its first submission did,
\* success or error, and the decoded sequence is the same after every run.
C10_Deterministic ==
    \A p \in Invocations :
        (runs[p] > 1 /\ Terminal(p)) =>
            /\ out[p] = first[p].out
            /\ data[p] = first[p].data

C10_Witness ==
    \E p \in Invocations :
        /\ runs[p] > 1
        /\ pc[p] = "done"
        /\ raw[p] = TestRequest
        /\ first[p].out = out[p]

====
